---- MODULE Spec2Model ----
(***************************************************************************)
(* A model of the noodlex VCF NIF library (native/noodlex/src/lib.rs):     *)
(* get_handle, get_header, get_record and get_records over one VcfHandle   *)
(* whose header and line stream are each guarded by a std::sync::Mutex.    *)
(***************************************************************************)
EXTENDS Integers, Sequences, FiniteSets, TLC

(* ---------------------------- bounds ----------------------------------- *)
MaxLines == 3
MaxCalls == 3
MaxCount == 2
\* The same, where several callers share the handle.
MaxConcLines == 2
MaxConcCalls == 2

(* ---------------------- boundary terms --------------------------------- *)
\* A term handed to the caller: an atom or a string (binary).
AtomTerm(a) == [type |-> "atom", v |-> a]
StringTerm(s) == [type |-> "string", v |-> <<s>>]

NoTerm == [type |-> "none", v |-> "none"]

\* std::io::ErrorKind values an open or a read can fail with.
IoErrorKinds ==
  {"NotFound", "PermissionDenied", "BrokenPipe", "AlreadyExists",
   "InvalidData", "Interrupted"}

\* Variant: the BrokenPipe arm is missing.
io_error_to_term_no_broken_pipe(kind) ==
  CASE kind = "NotFound" -> AtomTerm("not_found")
    [] kind = "PermissionDenied" -> AtomTerm("permission_denied")
    [] kind = "AlreadyExists" -> AtomTerm("already_exists")
    [] OTHER -> AtomTerm("unknown")

io_error_to_term(kind) ==
  CASE kind = "NotFound" -> AtomTerm("not_found")
    [] kind = "PermissionDenied" -> AtomTerm("permission_denied")
    [] kind = "BrokenPipe" -> AtomTerm("broken_pipe")
    [] kind = "AlreadyExists" -> AtomTerm("already_exists")
    [] OTHER -> AtomTerm("unknown")

(* ------------------------- text helpers -------------------------------- *)
\* A column of a line is a sequence of characters; a multi-character token
\* that no operation looks inside is kept as one element.
Digits == {"0", "1", "2", "3", "4", "5", "6", "7", "8", "9"}

DigitVal(ch) ==
  CASE ch = "0" -> 0 [] ch = "1" -> 1 [] ch = "2" -> 2 [] ch = "3" -> 3
    [] ch = "4" -> 4 [] ch = "5" -> 5 [] ch = "6" -> 6 [] ch = "7" -> 7
    [] ch = "8" -> 8 [] ch = "9" -> 9

IsNumeric(col) == Len(col) > 0 /\ \A i \in 1..Len(col) : col[i] \in Digits

RECURSIVE ParseUint(_)
ParseUint(col) ==
  IF Len(col) = 0 THEN 0
  ELSE 10 * ParseUint(SubSeq(col, 1, Len(col) - 1)) + DigitVal(col[Len(col)])

\* Split a column on a separator character.
RECURSIVE SplitOn(_, _)
SplitOn(col, sep) ==
  IF \A i \in 1..Len(col) : col[i] # sep THEN <<col>>
  ELSE LET k == CHOOSE i \in 1..Len(col) :
                  col[i] = sep /\ \A j \in 1..(i - 1) : col[j] # sep
       IN <<SubSeq(col, 1, k - 1)>> \o SplitOn(SubSeq(col, k + 1, Len(col)), sep)

(* ------------------------------ lines ---------------------------------- *)
\* A line of the input after the header: its bytes are valid UTF-8 or not,
\* and its text is a sequence of tab-separated columns (none: a blank line).
Line(utf8, cols) == [utf8 |-> utf8, cols |-> cols]

LineA ==
  Line(TRUE, << <<"1">>, <<"1", "0", "0">>, <<"rs1">>, <<"A">>, <<"T">>, <<"50">>,
                <<"PASS">>, <<"DP", "=", "10">>, <<"GT", ":", "DP">>,
                <<"0/1", ":", "5">>, <<"1/1", ":", "9">> >>)

LineB ==
  Line(TRUE, << <<"1">>, <<"2", "0", "0">>, <<".">>, <<"G">>, <<"C">>, <<".">>,
                <<"q10", ";", "s50">>, <<".">> >>)

\* A line without samples whose FILTER column is the missing value.
LineC ==
  Line(TRUE, << <<"2">>, <<"7">>, <<"rs2", ";", "rs3">>, <<"C">>, <<"G">>, <<"9">>,
                <<".">>, <<"H2">> >>)

\* Malformed: the position is not a number.
LineX ==
  Line(TRUE, << <<"1">>, <<"x">>, <<".">>, <<"A">>, <<"T">>, <<".">>,
                <<".">>, <<".">> >>)

\* Malformed: columns are missing.
LineY == Line(TRUE, << <<"1">>, <<"3", "0", "0">> >>)

\* A blank line: a line terminator and nothing else.
LineE == Line(TRUE, << >>)

\* A line whose bytes are not valid UTF-8.
LineU == Line(FALSE, << <<"1">> >>)

GoodLines == {LineA, LineB}
BadLines == {LineX, LineY}
Lines == GoodLines \cup BadLines \cup {LineE, LineU}

EmptyBuf == << >>

\* String::push_str of a line's text onto buf: the text continues buf's last
\* column.
PushStr(buf, cols) ==
  IF Len(buf) = 0 THEN cols
  ELSE IF Len(cols) = 0 THEN buf
  ELSE SubSeq(buf, 1, Len(buf) - 1) \o <<buf[Len(buf)] \o cols[1]>>
       \o SubSeq(cols, 2, Len(cols))

\* vcf::Reader::read_record(&mut buf) at cursor cur of lines: the io::Result,
\* the buffer and the cursor afterwards. At end of input nothing is appended.
read_record(lines, cur, buf) ==
  IF cur >= Len(lines) THEN [ok |-> TRUE, buf |-> buf, cur |-> cur]
  ELSE IF ~lines[cur + 1].utf8
       THEN [ok |-> FALSE, buf |-> buf, cur |-> cur + 1]
       ELSE [ok |-> TRUE, buf |-> PushStr(buf, lines[cur + 1].cols), cur |-> cur + 1]

(* --------------------------- RecordDecoder ----------------------------- *)
NoRecord == [chromosome |-> << >>, position |-> 0, ids |-> << >>,
             reference_bases |-> << >>, alternate_bases |-> << >>,
             quality_score |-> << >>, filters |-> << >>, info |-> << >>,
             format |-> << >>, genotypes |-> << >>]

Dot == <<".">>

\* key=value tokens of the INFO column, as ordered (key, value) pairs.
InfoPair(tok) ==
  LET kv == SplitOn(tok, "=")
  IN  IF Len(kv) = 1 THEN <<kv[1], << >> >>
      ELSE <<kv[1], SubSeq(tok, Len(kv[1]) + 2, Len(tok))>>

\* One sample column zipped positionally against the FORMAT keys.
SamplePairs(keys, sample) ==
  LET vals == SplitOn(sample, ":")
      n == IF Len(vals) < Len(keys) THEN Len(vals) ELSE Len(keys)
  IN  [i \in 1..n |-> <<keys[i], vals[i]>>]

\* vcf::record::Record::try_from_str(&buf, &header).
try_from_str(buf, header) ==
  IF Len(buf) < 8 THEN [ok |-> FALSE, err |-> "missing field", record |-> NoRecord]
  ELSE IF ~IsNumeric(buf[2])
  THEN [ok |-> FALSE, err |-> "invalid position", record |-> NoRecord]
  ELSE
    LET keys == IF Len(buf) >= 9 THEN SplitOn(buf[9], ":") ELSE << >>
    IN [ok |-> TRUE, err |-> "",
        record |->
          [chromosome |-> buf[1],
           position |-> ParseUint(buf[2]),
           ids |-> IF buf[3] = Dot THEN << >> ELSE SplitOn(buf[3], ";"),
           reference_bases |-> buf[4],
           alternate_bases |-> buf[5],
           quality_score |-> IF buf[6] = Dot THEN << >> ELSE <<buf[6]>>,
           filters |-> IF buf[7] = Dot THEN [some |-> FALSE, pass |-> FALSE, names |-> << >>]
                       ELSE IF buf[7] = <<"PASS">>
                            THEN [some |-> TRUE, pass |-> TRUE, names |-> << >>]
                            ELSE [some |-> TRUE, pass |-> FALSE,
                                  names |-> SplitOn(buf[7], ";")],
           info |-> IF buf[8] = Dot THEN << >>
                    ELSE LET toks == SplitOn(buf[8], ";")
                         IN [i \in 1..Len(toks) |-> InfoPair(toks[i])],
           format |-> keys,
           genotypes |-> [i \in 1..(IF Len(buf) >= 10 THEN Len(buf) - 9 ELSE 0) |->
                            SamplePairs(keys, buf[9 + i])]]]

(* --------------------------- ValueConverter ---------------------------- *)
\* Variant: a record without filters is reported as passing.
RecordFilters_none_as_pass(f) ==
  IF ~f.some \/ f.pass THEN [tag |-> "pass", names |-> << >>]
  ELSE [tag |-> "fail", names |-> f.names]

\* VcfRecordFilters built from record.filters().
RecordFilters(f) ==
  IF ~f.some THEN [tag |-> "none", names |-> << >>]
  ELSE IF f.pass THEN [tag |-> "pass", names |-> << >>]
  ELSE [tag |-> "fail", names |-> f.names]

RECURSIVE Flatten(_)
Flatten(seqs) ==
  IF Len(seqs) = 0 THEN << >> ELSE Head(seqs) \o Flatten(Tail(seqs))

\* Itertools::unique_by on the key: the first pair of every key is kept.
RECURSIVE UniqueByKey(_, _)
UniqueByKey(pairs, seen) ==
  IF Len(pairs) = 0 THEN << >>
  ELSE IF Head(pairs)[1] \in seen THEN UniqueByKey(Tail(pairs), seen)
  ELSE <<Head(pairs)>> \o UniqueByKey(Tail(pairs), seen \cup {Head(pairs)[1]})

\* Term::map_from_pairs / map_from_arrays: an unordered map.
MapFromPairs(pairs) == {pairs[i] : i \in 1..Len(pairs)}

\* genotypes of a VcfRecord built by get_record.
GenotypesOf(record) == MapFromPairs(UniqueByKey(Flatten(record.genotypes), {}))

\* genotypes of a VcfRecord built by get_records: an empty pair vector.
BatchGenotypesOf(record) == MapFromPairs(<< >>)

VcfRecordOf(record, genotypes) ==
  [chromosome |-> record.chromosome,
   position |-> record.position,
   ids |-> record.ids,
   reference_bases |-> record.reference_bases,
   alternate_bases |-> record.alternate_bases,
   quality_score |-> record.quality_score,
   filters |-> RecordFilters(record.filters),
   info |-> MapFromPairs(record.info),
   format |-> record.format,
   genotypes |-> genotypes]

(* ----------------------------- HeaderParser ---------------------------- *)
\* The raw header text read_header returns: the fileformat line and the
\* ##INFO / ##FILTER entries that follow it.
MetaLine(key, id, number, ty, description) ==
  [key |-> key, id |-> id, number |-> number, ty |-> ty, description |-> description]

HeaderText1 ==
  [fileformat |-> <<"4", ".", "3">>,
   meta |-> << MetaLine("INFO", "DP", <<"1">>, "Integer", "Depth"),
               MetaLine("INFO", "AF", <<"A">>, "Float", "Frequency"),
               MetaLine("INFO", "XX", <<".">>, "String", "Other"),
               MetaLine("FILTER", "q10", << >>, "", "Quality below 10") >>]

HeaderText2 ==
  [fileformat |-> <<"4", ".", "2">>,
   meta |-> << MetaLine("INFO", "AD", <<"R">>, "Integer", "Depths"),
               MetaLine("INFO", "PL", <<"G">>, "Integer", "Likelihoods"),
               MetaLine("INFO", "H2", <<"0">>, "Flag", "HapMap2"),
               MetaLine("INFO", "CI", <<"2">>, "Character", "Interval") >>]

\* Read without an I/O error, yet no valid header: the Number is no Number.
HeaderTextBad ==
  [fileformat |-> <<"4", ".", "3">>,
   meta |-> << MetaLine("INFO", "DP", <<"?">>, "Integer", "Depth") >>]

\* Read without an I/O error, yet no valid header: no file format version.
HeaderTextNoVersion ==
  [fileformat |-> <<"x">>, meta |-> << >>]

InfoTypes == {"Integer", "Float", "Flag", "Character", "String"}

ParseNumber(col) ==
  IF IsNumeric(col) THEN [ok |-> TRUE, kind |-> "Count", n |-> ParseUint(col)]
  ELSE IF col \in {<<"A">>, <<"R">>, <<"G">>}
  THEN [ok |-> TRUE, kind |-> col[1], n |-> 0]
  ELSE IF col = Dot THEN [ok |-> TRUE, kind |-> "Unknown", n |-> 0]
  ELSE [ok |-> FALSE, kind |-> "", n |-> 0]

NoHeader == [file_format |-> << >>, infos |-> << >>, filters |-> << >>]

\* header.parse::<vcf::header::Header>() on the raw header text.
ParseHeader(text) ==
  LET v == SplitOn(text.fileformat, ".")
      infoIx == SelectSeq([i \in 1..Len(text.meta) |-> i],
                          LAMBDA i : text.meta[i].key = "INFO")
      filterIx == SelectSeq([i \in 1..Len(text.meta) |-> i],
                            LAMBDA i : text.meta[i].key = "FILTER")
  IN  IF Len(v) # 2 \/ ~IsNumeric(v[1]) \/ ~IsNumeric(v[2])
      THEN [ok |-> FALSE, err |-> "invalid file format", header |-> NoHeader]
      ELSE IF \E i \in 1..Len(infoIx) :
                \/ ~ParseNumber(text.meta[infoIx[i]].number).ok
                \/ text.meta[infoIx[i]].ty \notin InfoTypes
      THEN [ok |-> FALSE, err |-> "invalid info", header |-> NoHeader]
      ELSE [ok |-> TRUE, err |-> "",
            header |->
              [file_format |-> <<ParseUint(v[1]), ParseUint(v[2])>>,
               infos |-> [i \in 1..Len(infoIx) |->
                           LET m == text.meta[infoIx[i]]
                           IN [id |-> m.id, number |-> ParseNumber(m.number),
                               ty |-> m.ty, description |-> m.description]],
               filters |-> [i \in 1..Len(filterIx) |->
                             LET m == text.meta[filterIx[i]]
                             IN [id |-> m.id, description |-> m.description]]]]

(* ------------------------------- files --------------------------------- *)
\* What is at the path given to get_handle: the outcome of File::open, the
\* outcome of read_header, the raw header text and the lines after it.
VcfFile(open, read, text, lines) ==
  [open |-> open, read |-> read, text |-> text, lines |-> lines]

RECURSIVE SeqsUpTo(_, _)
SeqsUpTo(S, n) ==
  IF n = 0 THEN {<< >>}
  ELSE LET shorter == SeqsUpTo(S, n - 1)
       IN shorter \cup {Append(q, x) : q \in {r \in shorter : Len(r) = n - 1}, x \in S}

Inputs == SeqsUpTo(Lines, MaxLines)
ConcInputs == SeqsUpTo(Lines, MaxConcLines)

Files ==
  {VcfFile(k, "Ok", HeaderText1, << >>) : k \in IoErrorKinds}
  \cup {VcfFile("Ok", k, HeaderText1, << >>) : k \in IoErrorKinds}
  \cup {VcfFile("Ok", "Ok", t, <<LineA>>) : t \in {HeaderTextBad, HeaderTextNoVersion}}
  \cup {VcfFile("Ok", "Ok", HeaderText2, <<LineA, LineB>>)}
  \cup {VcfFile("Ok", "Ok", HeaderText2, <<LineC, LineB, LineA>>)}
  \cup {VcfFile("Ok", "Ok", HeaderText1, in) : in \in Inputs}

ConcFiles ==
  {VcfFile("NotFound", "Ok", HeaderText1, << >>)}
  \cup {VcfFile("Ok", "Ok", HeaderText1, in) : in \in ConcInputs}

\* Variant: a header that does not parse is replaced by an empty one.
get_handle_default_header(f) ==
  IF f.open # "Ok" THEN [ok |-> FALSE, term |-> io_error_to_term(f.open), header |-> NoHeader]
  ELSE IF f.read # "Ok"
  THEN [ok |-> FALSE, term |-> io_error_to_term(f.read), header |-> NoHeader]
  ELSE LET parsed == ParseHeader(f.text)
       IN [ok |-> TRUE, term |-> NoTerm, header |-> parsed.header]

\* Result<ResourceArc<VcfHandle>, RustlerError> of get_handle(path).
get_handle(f) ==
  IF f.open # "Ok" THEN [ok |-> FALSE, term |-> io_error_to_term(f.open), header |-> NoHeader]
  ELSE IF f.read # "Ok"
  THEN [ok |-> FALSE, term |-> io_error_to_term(f.read), header |-> NoHeader]
  ELSE LET parsed == ParseHeader(f.text)
       IN IF parsed.ok THEN [ok |-> TRUE, term |-> NoTerm, header |-> parsed.header]
          ELSE [ok |-> FALSE, term |-> StringTerm("Error parsing header: " \o parsed.err),
                header |-> NoHeader]

(* ------------------------- header at the boundary ---------------------- *)
\* The number term of a VcfInfo (get_header's match on value.number()).
NumberTerm(number) ==
  CASE number.kind = "Count" -> AtomTerm("unknown")
    [] number.kind = "A" -> AtomTerm("alternate_alleles")
    [] number.kind = "R" -> AtomTerm("reference_and_alternate_alleles")
    [] number.kind = "G" -> AtomTerm("genotypes")
    [] number.kind = "Unknown" -> AtomTerm("unknown")

TypeTerm(ty) ==
  CASE ty = "Integer" -> AtomTerm("integer")
    [] ty = "Float" -> AtomTerm("float")
    [] ty = "Flag" -> AtomTerm("flag")
    [] ty = "Character" -> AtomTerm("character")
    [] ty = "String" -> AtomTerm("string")

\* The VcfHeader get_header builds from the locked vcf::Header.
VcfHeaderOf(h) ==
  [fileformat |-> [major |-> h.file_format[1], minor |-> h.file_format[2]],
   infos |-> MapFromPairs([i \in 1..Len(h.infos) |->
               <<h.infos[i].id,
                 [id |-> h.infos[i].id, number |-> NumberTerm(h.infos[i].number),
                  type_ |-> TypeTerm(h.infos[i].ty),
                  description |-> h.infos[i].description]>>]),
   filters |-> MapFromPairs([i \in 1..Len(h.filters) |->
               <<h.filters[i].id,
                 [id |-> h.filters[i].id, description |-> h.filters[i].description]>>])]

NoVcfHeader == [fileformat |-> [major |-> 0, minor |-> 0], infos |-> {}, filters |-> {}]

(* ------------------------------- state --------------------------------- *)
Callers == {"c1", "c2"}
Free == "free"

VARIABLES
  file,             \* what is at the path
  opened,           \* get_handle has been called
  open_result,      \* what get_handle returned
  handle,           \* the VcfHandle, when one exists: [exists, header]
  cursor,           \* lines of the input the stream has consumed
  stream_owner,     \* holder of handle.stream's mutex, or Free
  stream_poisoned,  \* handle.stream's mutex is poisoned
  header_owner,     \* holder of handle.header's mutex, or Free
  header_poisoned,  \* handle.header's mutex is poisoned
  pc,               \* where each caller's NIF call stands
  op,               \* the NIF each caller runs, or ran last
  count,            \* get_records' count argument
  buf,              \* locals of get_record / get_records
  result_vector,
  first_read,
  rustler_error,
  end_of_file,
  ret,              \* what each caller's last call returned
  budget,           \* calls the callers may still start
  start_cur,        \* cursor when the call took the stream lock
  end_cur,          \* cursor when the call gave the stream lock back
  taken,            \* input positions the call consumed
  res_src,          \* input positions of the records in result_vector
  delivered,        \* the records returned so far, in call order
  eos_observed      \* a get_record on the handle has returned end_of_file

shared == <<file, opened, open_result, handle>>
locks == <<stream_owner, stream_poisoned, header_owner, header_poisoned>>
locals == <<buf, result_vector, first_read, rustler_error, end_of_file>>
ghost == <<start_cur, end_cur, taken, res_src>>
vars ==
  <<shared, cursor, locks, pc, op, count, locals, ret, budget, ghost, delivered,
    eos_observed>>

NoError == [some |-> FALSE, term |-> NoTerm]
SomeError(t) == [some |-> TRUE, term |-> t]

Ret(tag, term, records, header) ==
  [tag |-> tag, term |-> term, records |-> records, header |-> header]
NoRet == Ret("none", NoTerm, << >>, NoVcfHeader)
\* A panic inside a NIF unwinds to rustler, which raises in the caller.
Panicked == Ret("panic", NoTerm, << >>, NoVcfHeader)
Err(term) == Ret("error", term, << >>, NoVcfHeader)
OkRecords(records) == Ret("ok", NoTerm, records, NoVcfHeader)
OkHeader(h) == Ret("ok", NoTerm, << >>, h)

\* The state before get_handle is called, for a file of files and a budget of
\* calls.
InitOf(files, calls) ==
  /\ file \in files
  /\ opened = FALSE
  /\ open_result = [ok |-> FALSE, term |-> NoTerm, header |-> NoHeader]
  /\ handle = [exists |-> FALSE, header |-> NoHeader]
  /\ cursor = 0
  /\ stream_owner = Free /\ stream_poisoned = FALSE
  /\ header_owner = Free /\ header_poisoned = FALSE
  /\ pc = [c \in Callers |-> "idle"]
  /\ op = [c \in Callers |-> "none"]
  /\ count = [c \in Callers |-> 0]
  /\ buf = [c \in Callers |-> EmptyBuf]
  /\ result_vector = [c \in Callers |-> << >>]
  /\ first_read = [c \in Callers |-> FALSE]
  /\ rustler_error = [c \in Callers |-> NoError]
  /\ end_of_file = [c \in Callers |-> FALSE]
  /\ ret = [c \in Callers |-> NoRet]
  /\ budget = calls
  /\ start_cur = [c \in Callers |-> 0]
  /\ end_cur = [c \in Callers |-> 0]
  /\ taken = [c \in Callers |-> << >>]
  /\ res_src = [c \in Callers |-> << >>]
  /\ delivered = << >>
  /\ eos_observed = FALSE

(* ------------------------------ get_handle ----------------------------- *)
\* get_handle(path): the handle exists only on Ok.
Open ==
  /\ ~opened
  /\ opened' = TRUE
  /\ open_result' = get_handle(file)
  /\ handle' = [exists |-> get_handle(file).ok, header |-> get_handle(file).header]
  /\ UNCHANGED <<file, cursor, locks, pc, op, count, locals, ret, budget, ghost, delivered,
                 eos_observed>>

\* A caller starts a NIF call on the handle it holds.
Begin(c, nif, n) ==
  /\ handle.exists
  /\ pc[c] = "idle"
  /\ budget > 0
  /\ budget' = budget - 1
  /\ op' = [op EXCEPT ![c] = nif]
  /\ count' = [count EXCEPT ![c] = n]
  /\ ret' = [ret EXCEPT ![c] = NoRet]
  /\ start_cur' = [start_cur EXCEPT ![c] = cursor]
  /\ end_cur' = [end_cur EXCEPT ![c] = cursor]
  /\ taken' = [taken EXCEPT ![c] = << >>]
  /\ res_src' = [res_src EXCEPT ![c] = << >>]

\* The call of caller c is over and returned r (or raised).
Finish(c, r) ==
  /\ pc' = [pc EXCEPT ![c] = "idle"]
  /\ ret' = [ret EXCEPT ![c] = r]

(* ------------------------------ get_record ----------------------------- *)
\* Variant: the decode result is matched before the emptiness of the buffer.
get_record_match_decode_first(b, header) ==
  LET parsed_record == try_from_str(b, header)
  IN  IF parsed_record.ok
      THEN OkRecords(<<VcfRecordOf(parsed_record.record, GenotypesOf(parsed_record.record))>>)
      ELSE Err(StringTerm(parsed_record.err))

\* What get_record's match returns for the buffer it read.
get_record_match(b, header) ==
  LET parsed_record == try_from_str(b, header)
  IN  IF Len(b) = 0 THEN Err(AtomTerm("end_of_file"))
      ELSE IF parsed_record.ok
      THEN OkRecords(<<VcfRecordOf(parsed_record.record, GenotypesOf(parsed_record.record))>>)
      ELSE Err(StringTerm(parsed_record.err))

Call_get_record(c) ==
  /\ Begin(c, "get_record", 0)
  /\ pc' = [pc EXCEPT ![c] = "gr_lock_stream"]
  /\ buf' = [buf EXCEPT ![c] = EmptyBuf]
  /\ UNCHANGED <<eos_observed, shared, cursor, locks, result_vector, first_read, rustler_error,
                 end_of_file, delivered>>

\* handle.stream.lock().unwrap()
gr_lock_stream(c) ==
  /\ pc[c] = "gr_lock_stream"
  /\ stream_owner = Free
  /\ IF stream_poisoned
     THEN /\ Finish(c, Panicked)
          /\ UNCHANGED <<stream_owner, start_cur, end_cur>>
     ELSE /\ stream_owner' = c
          /\ pc' = [pc EXCEPT ![c] = "gr_read"]
          /\ start_cur' = [start_cur EXCEPT ![c] = cursor]
          /\ end_cur' = [end_cur EXCEPT ![c] = cursor]
          /\ UNCHANGED ret
  /\ UNCHANGED <<eos_observed, shared, cursor, stream_poisoned, header_owner, header_poisoned, op,
                 count, locals, budget, taken, res_src, delivered>>

\* .read_record(&mut buf).unwrap(), after which the guard is dropped.
gr_read(c) ==
  /\ pc[c] = "gr_read"
  /\ stream_owner = c
  /\ LET r == read_record(file.lines, cursor, buf[c])
     IN  /\ cursor' = r.cur
         /\ end_cur' = [end_cur EXCEPT ![c] = r.cur]
         /\ taken' = [taken EXCEPT ![c] = IF r.cur > cursor THEN Append(@, r.cur) ELSE @]
         /\ stream_owner' = Free
         /\ IF r.ok
            THEN /\ buf' = [buf EXCEPT ![c] = r.buf]
                 /\ pc' = [pc EXCEPT ![c] = "gr_lock_header"]
                 /\ UNCHANGED <<stream_poisoned, ret>>
            ELSE /\ stream_poisoned' = TRUE
                 /\ Finish(c, Panicked)
                 /\ UNCHANGED buf
  /\ UNCHANGED <<eos_observed, shared, header_owner, header_poisoned, op, count, result_vector,
                 first_read, rustler_error, end_of_file, budget, start_cur, res_src,
                 delivered>>

\* handle.header.lock().unwrap()
gr_lock_header(c) ==
  /\ pc[c] = "gr_lock_header"
  /\ header_owner = Free
  /\ IF header_poisoned
     THEN /\ Finish(c, Panicked)
          /\ UNCHANGED header_owner
     ELSE /\ header_owner' = c
          /\ pc' = [pc EXCEPT ![c] = "gr_parse"]
          /\ UNCHANGED ret
  /\ UNCHANGED <<eos_observed, shared, cursor, stream_owner, stream_poisoned, header_poisoned, op,
                 count, locals, budget, ghost, delivered>>

\* try_from_str under the header guard, then the match and the return.
gr_parse(c) ==
  /\ pc[c] = "gr_parse"
  /\ header_owner = c
  /\ header_owner' = Free
  /\ LET r == get_record_match(buf[c], handle.header)
     IN  /\ Finish(c, r)
         /\ res_src' = [res_src EXCEPT ![c] = IF r.tag = "ok" THEN taken[c] ELSE << >>]
         /\ delivered' = delivered \o r.records
         /\ eos_observed' = (eos_observed \/ r = Err(AtomTerm("end_of_file")))
  /\ UNCHANGED <<shared, cursor, stream_owner, stream_poisoned, header_poisoned, op,
                 count, locals, budget, start_cur, end_cur, taken>>

(* ------------------------------ get_records ---------------------------- *)
Call_get_records(c, n) ==
  /\ Begin(c, "get_records", n)
  /\ pc' = [pc EXCEPT ![c] = "gs_lock_stream"]
  /\ buf' = [buf EXCEPT ![c] = EmptyBuf]
  /\ result_vector' = [result_vector EXCEPT ![c] = << >>]
  /\ first_read' = [first_read EXCEPT ![c] = TRUE]
  /\ rustler_error' = [rustler_error EXCEPT ![c] = NoError]
  /\ UNCHANGED <<eos_observed, shared, cursor, locks, end_of_file, delivered>>

\* Variant: the stream is taken without waiting for its holder.
gs_lock_stream_nowait(c) ==
  /\ pc[c] = "gs_lock_stream"
  /\ IF stream_poisoned
     THEN /\ Finish(c, Panicked)
          /\ UNCHANGED <<stream_owner, start_cur, end_cur, end_of_file>>
     ELSE /\ stream_owner' = c
          /\ pc' = [pc EXCEPT ![c] = "gs_lock_header"]
          /\ end_of_file' = [end_of_file EXCEPT ![c] = FALSE]
          /\ start_cur' = [start_cur EXCEPT ![c] = cursor]
          /\ end_cur' = [end_cur EXCEPT ![c] = cursor]
          /\ UNCHANGED ret
  /\ UNCHANGED <<eos_observed, shared, cursor, stream_poisoned, header_owner, header_poisoned, op,
                 count, buf, result_vector, first_read, rustler_error, budget, taken,
                 res_src, delivered>>

\* let mut stream = handle.stream.lock().unwrap(); let mut end_of_file = false;
gs_lock_stream(c) ==
  /\ pc[c] = "gs_lock_stream"
  /\ stream_owner = Free
  /\ IF stream_poisoned
     THEN /\ Finish(c, Panicked)
          /\ UNCHANGED <<stream_owner, start_cur, end_cur, end_of_file>>
     ELSE /\ stream_owner' = c
          /\ pc' = [pc EXCEPT ![c] = "gs_lock_header"]
          /\ end_of_file' = [end_of_file EXCEPT ![c] = FALSE]
          /\ start_cur' = [start_cur EXCEPT ![c] = cursor]
          /\ end_cur' = [end_cur EXCEPT ![c] = cursor]
          /\ UNCHANGED ret
  /\ UNCHANGED <<eos_observed, shared, cursor, stream_poisoned, header_owner, header_poisoned, op,
                 count, buf, result_vector, first_read, rustler_error, budget, taken,
                 res_src, delivered>>

\* Variant: the stream guard is given up when the header guard is taken.
gs_lock_header_drops_stream(c) ==
  /\ pc[c] = "gs_lock_header"
  /\ stream_owner = c
  /\ header_owner = Free
  /\ stream_owner' = Free
  /\ IF header_poisoned
     THEN /\ Finish(c, Panicked)
          /\ stream_poisoned' = TRUE
          /\ UNCHANGED header_owner
     ELSE /\ header_owner' = c
          /\ pc' = [pc EXCEPT ![c] = "gs_loop"]
          /\ UNCHANGED <<ret, stream_poisoned>>
  /\ UNCHANGED <<eos_observed, shared, cursor, header_poisoned, op, count, locals, budget, ghost,
                 delivered>>

\* let header = handle.header.lock().unwrap(); the stream guard is alive, so
\* a panic here poisons the stream mutex.
gs_lock_header(c) ==
  /\ pc[c] = "gs_lock_header"
  /\ stream_owner = c
  /\ header_owner = Free
  /\ IF header_poisoned
     THEN /\ Finish(c, Panicked)
          /\ stream_poisoned' = TRUE
          /\ stream_owner' = Free
          /\ UNCHANGED header_owner
     ELSE /\ header_owner' = c
          /\ pc' = [pc EXCEPT ![c] = "gs_loop"]
          /\ UNCHANGED <<ret, stream_poisoned, stream_owner>>
  /\ UNCHANGED <<eos_observed, shared, cursor, header_poisoned, op, count, locals, budget, ghost,
                 delivered>>

\* Variant: the loop goes on after a decode error.
while_cond_ignores_error(c) ==
  \/ first_read[c]
  \/ /\ Len(result_vector[c]) < count[c]
     /\ ~end_of_file[c]

\* Variant: the loop does not look at the number of records it has.
while_cond_ignores_count(c) ==
  \/ first_read[c]
  \/ /\ ~rustler_error[c].some
     /\ ~end_of_file[c]

\* The condition of get_records' while loop.
while_cond(c) ==
  \/ first_read[c]
  \/ /\ ~rustler_error[c].some
     /\ Len(result_vector[c]) < count[c]
     /\ ~end_of_file[c]

\* Variant: the buffer is not cleared.
buf_clear_missing(b) == b

\* buf.clear() after a record is pushed.
buf_clear(b) == EmptyBuf

\* One iteration of the loop: read a line, decode it, match.
gs_iterate(c) ==
  /\ pc[c] = "gs_loop"
  /\ while_cond(c)
  /\ first_read' = [first_read EXCEPT ![c] = FALSE]
  /\ LET r == read_record(file.lines, cursor, buf[c])
         parsed_record == try_from_str(r.buf, handle.header)
     IN  /\ cursor' = r.cur
         /\ end_cur' = [end_cur EXCEPT ![c] = r.cur]
         /\ taken' = [taken EXCEPT ![c] = IF r.cur > cursor THEN Append(@, r.cur) ELSE @]
         /\ IF ~r.ok
            THEN \* read_record(..).unwrap() panics with both guards alive
                 /\ Finish(c, Panicked)
                 /\ stream_poisoned' = TRUE /\ header_poisoned' = TRUE
                 /\ stream_owner' = Free /\ header_owner' = Free
                 /\ UNCHANGED <<buf, result_vector, rustler_error, end_of_file, res_src>>
            ELSE /\ UNCHANGED <<pc, ret, locks>>
                 /\ IF Len(r.buf) = 0
                    THEN /\ end_of_file' = [end_of_file EXCEPT ![c] = TRUE]
                         /\ buf' = [buf EXCEPT ![c] = r.buf]
                         /\ UNCHANGED <<result_vector, rustler_error, res_src>>
                    ELSE IF parsed_record.ok
                    THEN /\ result_vector' =
                              [result_vector EXCEPT ![c] =
                                 Append(@, VcfRecordOf(parsed_record.record,
                                                       BatchGenotypesOf(parsed_record.record)))]
                         /\ res_src' = [res_src EXCEPT ![c] = Append(@, r.cur)]
                         /\ buf' = [buf EXCEPT ![c] = buf_clear(r.buf)]
                         /\ UNCHANGED <<rustler_error, end_of_file>>
                    ELSE /\ rustler_error' =
                              [rustler_error EXCEPT ![c] = SomeError(StringTerm(parsed_record.err))]
                         /\ buf' = [buf EXCEPT ![c] = r.buf]
                         /\ UNCHANGED <<result_vector, end_of_file, res_src>>
  /\ UNCHANGED <<eos_observed, shared, op, count, budget, start_cur, delivered>>

\* Variant: the records read before the bad line are returned.
gs_return_partial(c) ==
  /\ pc[c] = "gs_loop"
  /\ ~while_cond(c)
  /\ stream_owner' = Free
  /\ header_owner' = Free
  /\ Finish(c, OkRecords(result_vector[c]))
  /\ delivered' = delivered \o result_vector[c]
  /\ UNCHANGED <<eos_observed, shared, cursor, stream_poisoned, header_poisoned, op, count, locals,
                 budget, ghost>>

\* Variant: end of input inside a batch is reported like get_record reports it.
gs_return_eof_error(c) ==
  /\ pc[c] = "gs_loop"
  /\ ~while_cond(c)
  /\ stream_owner' = Free
  /\ header_owner' = Free
  /\ IF rustler_error[c].some
     THEN /\ Finish(c, Err(rustler_error[c].term))
          /\ UNCHANGED delivered
     ELSE IF end_of_file[c]
     THEN /\ Finish(c, Err(AtomTerm("end_of_file")))
          /\ UNCHANGED delivered
     ELSE /\ Finish(c, OkRecords(result_vector[c]))
          /\ delivered' = delivered \o result_vector[c]
  /\ UNCHANGED <<eos_observed, shared, cursor, stream_poisoned, header_poisoned, op, count, locals,
                 budget, ghost>>

\* The match on rustler_error after the loop; both guards are dropped.
gs_return(c) ==
  /\ pc[c] = "gs_loop"
  /\ ~while_cond(c)
  /\ stream_owner' = Free
  /\ header_owner' = Free
  /\ IF rustler_error[c].some
     THEN /\ Finish(c, Err(rustler_error[c].term))
          /\ UNCHANGED delivered
     ELSE /\ Finish(c, OkRecords(result_vector[c]))
          /\ delivered' = delivered \o result_vector[c]
  /\ UNCHANGED <<eos_observed, shared, cursor, stream_poisoned, header_poisoned, op, count, locals,
                 budget, ghost>>

(* ------------------------------ get_header ----------------------------- *)
Call_get_header(c) ==
  /\ Begin(c, "get_header", 0)
  /\ pc' = [pc EXCEPT ![c] = "gh_lock"]
  /\ UNCHANGED <<eos_observed, shared, cursor, locks, locals, delivered>>

\* Variant: with the header guard in hand the call goes on to ask for the
\* stream.
gh_lock_then_stream(c) ==
  /\ pc[c] = "gh_lock"
  /\ header_owner = Free
  /\ IF header_poisoned
     THEN /\ Finish(c, Panicked)
          /\ UNCHANGED header_owner
     ELSE /\ header_owner' = c
          /\ pc' = [pc EXCEPT ![c] = "gs_lock_stream"]
          /\ UNCHANGED ret
  /\ UNCHANGED <<eos_observed, shared, cursor, stream_owner, stream_poisoned, header_poisoned, op,
                 count, locals, budget, ghost, delivered>>

\* let header = handle.header.lock().unwrap();
gh_lock(c) ==
  /\ pc[c] = "gh_lock"
  /\ header_owner = Free
  /\ IF header_poisoned
     THEN /\ Finish(c, Panicked)
          /\ UNCHANGED header_owner
     ELSE /\ header_owner' = c
          /\ pc' = [pc EXCEPT ![c] = "gh_body"]
          /\ UNCHANGED ret
  /\ UNCHANGED <<eos_observed, shared, cursor, stream_owner, stream_poisoned, header_poisoned, op,
                 count, locals, budget, ghost, delivered>>

\* The VcfHeader is built and returned; the guard is dropped.
gh_body(c) ==
  /\ pc[c] = "gh_body"
  /\ header_owner = c
  /\ header_owner' = Free
  /\ Finish(c, OkHeader(VcfHeaderOf(handle.header)))
  /\ UNCHANGED <<eos_observed, shared, cursor, stream_owner, stream_poisoned, header_poisoned, op,
                 count, locals, budget, ghost, delivered>>

(* ---------------------------- specifications --------------------------- *)
Step(c) ==
  \/ Call_get_header(c)
  \/ gh_lock(c)
  \/ gh_body(c)
  \/ Call_get_record(c)
  \/ gr_lock_stream(c)
  \/ gr_read(c)
  \/ gr_lock_header(c)
  \/ gr_parse(c)
  \/ \E n \in 0..MaxCount : Call_get_records(c, n)
  \/ gs_lock_stream(c)
  \/ gs_lock_header(c)
  \/ gs_iterate(c)
  \/ gs_return(c)

Init == InitOf(Files, MaxCalls)

\* One caller: every call returns before the next one starts.
Next == Open \/ Step("c1")

Spec == Init /\ [][Next]_vars

\* Any number of callers share the handle.
InitConc == InitOf(ConcFiles, MaxConcCalls)

NextConc == Open \/ \E c \in Callers : Step(c)

SpecConc == InitConc /\ [][NextConc]_vars

(* ------------------------------ properties ----------------------------- *)
\* Caller c's call of nif has returned (or raised).
Returned(c, nif) == pc[c] = "idle" /\ op[c] = nif /\ ret[c].tag # "none"

IsBlank(line) == line.utf8 /\ Len(line.cols) = 0
Decodes(line) ==
  line.utf8 /\ Len(line.cols) > 0 /\ try_from_str(line.cols, handle.header).ok
IsMalformed(line) ==
  line.utf8 /\ Len(line.cols) > 0 /\ ~try_from_str(line.cols, handle.header).ok

\* The record a batch read builds from a line that decodes.
BatchRecordOfLine(line) ==
  VcfRecordOf(try_from_str(line.cols, handle.header).record, {})

\* C1: a read_many(handle, N) call that returns without error returns at most
\* N records, for every N >= 0.
C1_AtMostCount ==
  \A c \in Callers :
    (Returned(c, "get_records") /\ ret[c].tag = "ok")
      => Len(ret[c].records) <= count[c]

\* Where the cursor would stand had the loop gone on consuming lines after a
\* decode failure until count records or end of input.
RECURSIVE KeepConsuming(_, _, _, _, _)
KeepConsuming(lines, cur, produced, n, first) ==
  IF ~(first \/ produced < n) \/ cur >= Len(lines) THEN cur
  ELSE IF IsBlank(lines[cur + 1]) THEN cur + 1
  ELSE KeepConsuming(lines, cur + 1,
                     IF Decodes(lines[cur + 1]) THEN produced + 1 ELSE produced,
                     n, FALSE)

\* C2 as stated: after a read_many that failed on a bad line, the cursor is
\* past the further lines consumed until count or end of input.
C2_KeepsConsuming ==
  \A c \in Callers :
    (/\ Returned(c, "get_records") /\ ret[c].tag = "error"
     /\ \A i \in 1..Len(file.lines) : file.lines[i].utf8)
      => end_cur[c] = KeepConsuming(file.lines, start_cur[c], 0, count[c], TRUE)

\* C2 amended: a read_many that hits a line that fails to decode stops there:
\* the lines it consumed are the good lines before the bad one and the bad
\* line, the cursor is just past the bad line, and the error is that line's.
C2_StopsAtFirstBadLine ==
  \A c \in Callers :
    (Returned(c, "get_records") /\ ret[c].tag = "error")
      => /\ end_cur[c] > start_cur[c]
         /\ taken[c] = [k \in 1..(end_cur[c] - start_cur[c]) |-> start_cur[c] + k]
         /\ \A i \in (start_cur[c] + 1)..(end_cur[c] - 1) : Decodes(file.lines[i])
         /\ IsMalformed(file.lines[end_cur[c]])
         /\ ret[c].term =
              StringTerm(try_from_str(file.lines[end_cur[c]].cols, handle.header).err)

\* A batch that failed after a good record, with lines left unread and fewer
\* than count records produced.
C2_Witness ==
  \E c \in Callers :
    /\ Returned(c, "get_records") /\ ret[c].tag = "error"
    /\ end_cur[c] >= start_cur[c] + 2
    /\ end_cur[c] < Len(file.lines)
    /\ end_cur[c] - start_cur[c] - 1 < count[c]
    /\ cursor = end_cur[c]

\* C3: a read_many that read a malformed line returns a DecodeError and no
\* records, however many good records preceded the bad line.
C3_NoPartialListOnBadLine ==
  \A c \in Callers :
    (/\ Returned(c, "get_records")
     /\ \E k \in 1..Len(taken[c]) : IsMalformed(file.lines[taken[c][k]]))
      => /\ ret[c].tag = "error"
         /\ ret[c].term.type = "string"
         /\ ret[c].records = << >>

\* A failed batch in which a good record preceded the bad line.
C3_Witness ==
  \E c \in Callers :
    /\ Returned(c, "get_records") /\ ret[c].tag = "error"
    /\ Len(taken[c]) >= 2
    /\ Decodes(file.lines[taken[c][1]])
    /\ IsMalformed(file.lines[taken[c][Len(taken[c])]])

\* The call read a line with no content: a blank line, or nothing at the end.
SawEndOfInput(c) ==
  LET n == Len(ret[c].records)
  IN  \/ end_cur[c] = start_cur[c] + n /\ end_cur[c] = Len(file.lines)
      \/ /\ end_cur[c] = start_cur[c] + n + 1
         /\ IsBlank(file.lines[end_cur[c]])

\* C4: a read_many that returns and no line of which failed to decode returns, with no error,
\* the records of the lines it read in input order; it returns fewer than N
\* records only when it read a line with no content, and then returns the
\* records collected so far.
C4_PartialOnEndOfInput ==
  \A c \in Callers :
    Returned(c, "get_records") =>
      /\ (/\ ret[c].tag \in {"ok", "error"}
          /\ \A k \in 1..Len(taken[c]) :
               Decodes(file.lines[taken[c][k]]) \/ IsBlank(file.lines[taken[c][k]]))
           => /\ ret[c].tag = "ok"
              /\ ret[c].records =
                   [k \in 1..Len(ret[c].records) |->
                      BatchRecordOfLine(file.lines[start_cur[c] + k])]
              /\ \A k \in 1..Len(ret[c].records) : Decodes(file.lines[start_cur[c] + k])
              /\ Len(ret[c].records) >= Len(taken[c]) - 1
      /\ (ret[c].tag = "ok" /\ Len(ret[c].records) < count[c]) => SawEndOfInput(c)

\* A batch cut short by the end of the input after a record was collected.
C4_Witness ==
  \E c \in Callers :
    /\ Returned(c, "get_records") /\ ret[c].tag = "ok"
    /\ Len(ret[c].records) >= 1
    /\ Len(ret[c].records) < count[c]
    /\ SawEndOfInput(c)

\* A call that has taken its first lock and has not returned yet.
Executing(c) ==
  pc[c] \in {"gr_read", "gr_lock_header", "gr_parse", "gs_lock_header", "gs_loop", "gh_body"}
\* A call inside a section the stream mutex guards / the header mutex guards.
InStreamSection(c) == pc[c] \in {"gr_read", "gs_lock_header", "gs_loop"}
InHeaderSection(c) == pc[c] \in {"gr_parse", "gs_loop", "gh_body"}

\* C5 as stated: at most one call is executing against the handle; every
\* other call waits until it has finished.
C5_OneInFlight == Cardinality({c \in Callers : Executing(c)}) <= 1

\* C5 amended: at most one call at a time is inside a section guarded by the
\* stream mutex, and at most one inside a section guarded by the header mutex.
C5_LocksExclusive ==
  /\ Cardinality({c \in Callers : InStreamSection(c)}) <= 1
  /\ Cardinality({c \in Callers : InHeaderSection(c)}) <= 1
  /\ \A c \in Callers : InStreamSection(c) => stream_owner = c
  /\ \A c \in Callers : InHeaderSection(c) => header_owner = c

\* Two calls execute at once: a batch read under the stream mutex and another
\* call under the header mutex.
C5_Witness ==
  \E c \in Callers : \E d \in Callers \ {c} :
    /\ InStreamSection(c) /\ op[c] = "get_records"
    /\ InHeaderSection(d)

\* What successive read_one calls from cursor cur return: the records of up
\* to n calls, stopping at the first call that returns no record.
RECURSIVE ReadOnes(_, _, _)
ReadOnes(lines, cur, n) ==
  IF n = 0 THEN [records |-> << >>, cur |-> cur]
  ELSE LET r == read_record(lines, cur, EmptyBuf)
           m == get_record_match(r.buf, handle.header)
       IN  IF r.ok /\ m.tag = "ok"
           THEN LET rest == ReadOnes(lines, r.cur, n - 1)
                IN [records |-> m.records \o rest.records, cur |-> rest.cur]
           ELSE [records |-> << >>, cur |-> r.cur]

\* C6: on an input whose lines all decode and for N >= 1, read_many returns
\* the records successive read_one calls would return, field for field, and
\* leaves the cursor where they would.
C6_BatchEqualsSingles ==
  \A c \in Callers :
    (/\ Returned(c, "get_records")
     /\ count[c] >= 1
     /\ \A i \in 1..Len(file.lines) : Decodes(file.lines[i]))
      => /\ ret[c].tag = "ok"
         /\ ret[c].records = ReadOnes(file.lines, start_cur[c], count[c]).records
         /\ end_cur[c] = ReadOnes(file.lines, start_cur[c], count[c]).cur

\* The line a read_one call read: nothing at the end of the input.
LineRead(c) ==
  IF Len(taken[c]) = 0 THEN EmptyBuf ELSE file.lines[taken[c][1]].cols

\* C7: a read_one that returns gives EndOfStream exactly when the line it
\* read has no content, whatever decoding that line yields; otherwise the
\* decoded record, or that line's DecodeError, which is no EndOfStream.
C7_EndOfStreamIffNoContent ==
  \A c \in Callers :
    (Returned(c, "get_record") /\ ret[c].tag # "panic") =>
      LET parsed_record == try_from_str(LineRead(c), handle.header)
      IN  /\ Len(taken[c]) <= 1
          /\ (ret[c] = Err(AtomTerm("end_of_file"))) <=> (Len(LineRead(c)) = 0)
          /\ (Len(LineRead(c)) > 0 /\ parsed_record.ok) =>
               ret[c] = OkRecords(<<VcfRecordOf(parsed_record.record,
                                                GenotypesOf(parsed_record.record))>>)
          /\ (Len(LineRead(c)) > 0 /\ ~parsed_record.ok) =>
               /\ ret[c] = Err(StringTerm(parsed_record.err))
               /\ ret[c].term.type # AtomTerm("end_of_file").type

\* A read_one read a blank line that further lines follow and returned
\* EndOfStream.
C7_Witness ==
  \E c \in Callers :
    /\ Returned(c, "get_record")
    /\ Len(taken[c]) = 1
    /\ IsBlank(file.lines[taken[c][1]])
    /\ ret[c] = Err(AtomTerm("end_of_file"))
    /\ cursor < Len(file.lines)

\* What a call started at cursor cur returns when nothing but the cursor
\* and the remaining input decides it.
ExpectedReadOne(lines, cur) ==
  LET r == read_record(lines, cur, EmptyBuf)
  IN  IF r.ok THEN get_record_match(r.buf, handle.header) ELSE Panicked

\* C8: no failure leaves state behind on the handle: every call's outcome is
\* the one the cursor position and the remaining input give, whatever calls
\* failed before it.
C8_NoStateLeftBehind ==
  \A c \in Callers :
    /\ Returned(c, "get_record") => ret[c] = ExpectedReadOne(file.lines, start_cur[c])
    /\ Returned(c, "get_header") => ret[c] = OkHeader(VcfHeaderOf(handle.header))

\* The records of the data lines of the input, in input order.
RECURSIVE DataRecords(_)
DataRecords(lines) ==
  IF Len(lines) = 0 THEN << >>
  ELSE IF IsBlank(Head(lines)) THEN DataRecords(Tail(lines))
  ELSE <<BatchRecordOfLine(Head(lines))>> \o DataRecords(Tail(lines))

\* A record without its genotypes, which a batch read leaves empty.
LineFields(record) == [record EXCEPT !.genotypes = {}]

\* C9: with one caller and an input whose data lines all decode, the records
\* returned by the read_one and read_many calls so far, in call order, are a
\* prefix of the input's data lines in input order.
C9_DeliveredIsPrefix ==
  (\A i \in 1..Len(file.lines) : Decodes(file.lines[i]) \/ IsBlank(file.lines[i]))
    => /\ Len(delivered) <= Len(DataRecords(file.lines))
       /\ \A k \in 1..Len(delivered) :
            LineFields(delivered[k]) = DataRecords(file.lines)[k]

\* Two different lines were returned by two calls, the second a batch read.
C9_Witness ==
  /\ \A i \in 1..Len(file.lines) : Decodes(file.lines[i])
  /\ Returned("c1", "get_records")
  /\ Len(ret["c1"].records) >= 2
  /\ Len(delivered) > Len(ret["c1"].records)
  /\ delivered[1].position # delivered[2].position

IoErrorTerms == {io_error_to_term(k) : k \in IoErrorKinds}

\* C10: get_handle yields a handle only when the open, the header read and
\* the header parse all succeed; an open or read failure yields a classified
\* I/O error, a header that does not parse a string that is no I/O error, and
\* no record or header is returned without a parsed header.
C10_HandleOnlyAfterHeaderParses ==
  /\ handle.exists =>
       /\ opened /\ open_result.ok
       /\ file.open = "Ok" /\ file.read = "Ok"
       /\ ParseHeader(file.text).ok
       /\ handle.header = ParseHeader(file.text).header
  /\ (opened /\ file.open # "Ok") =>
       ~handle.exists /\ ~open_result.ok /\ open_result.term = io_error_to_term(file.open)
  /\ (opened /\ file.open = "Ok" /\ file.read # "Ok") =>
       ~handle.exists /\ ~open_result.ok /\ open_result.term = io_error_to_term(file.read)
  /\ (opened /\ file.open = "Ok" /\ file.read = "Ok" /\ ~ParseHeader(file.text).ok) =>
       /\ ~handle.exists /\ ~open_result.ok
       /\ open_result.term.type = "string"
       /\ open_result.term \notin IoErrorTerms
  /\ \A c \in Callers : (pc[c] # "idle" \/ ret[c].tag # "none") =>
       handle.exists /\ ParseHeader(file.text).ok

\* The header was read but did not parse: no handle, a ParseError.
C10_Witness ==
  /\ opened
  /\ file.open = "Ok" /\ file.read = "Ok"
  /\ ~ParseHeader(file.text).ok
  /\ ~handle.exists
  /\ open_result.term.type = "string"

\* The number term the boundary header gives for the INFO entry id.
BoundaryNumber(h, id) == (CHOOSE p \in h.infos : p[1] = id)[2].number

\* C11: the header's INFO Number keeps its kind at the boundary: two entries
\* whose Numbers differ in kind (or in count) have different number terms, so
\* an integer Number is told apart from Unknown.
C11_NumberKindsDistinct ==
  \A c \in Callers :
    (Returned(c, "get_header") /\ ret[c].tag = "ok") =>
      \A i, j \in 1..Len(handle.header.infos) :
        LET a == handle.header.infos[i]
            b == handle.header.infos[j]
        IN  (a.number.kind # b.number.kind \/ a.number.n # b.number.n)
              => BoundaryNumber(ret[c].header, a.id) # BoundaryNumber(ret[c].header, b.id)

\* The genotypes mapping of a line: every FORMAT key with the value of the
\* first sample column, in column order, that has a value for it.
ExpectedGenotypes(cols) ==
  IF Len(cols) < 10 THEN {}
  ELSE LET keys == SelectSeq(cols[9], LAMBDA x : x # ":")
           sample(s) == SelectSeq(cols[9 + s], LAMBDA x : x # ":")
           has(i) == {s \in 1..(Len(cols) - 9) : Len(sample(s)) >= i}
           first(i) == CHOOSE s \in has(i) : \A t \in has(i) : s <= t
       IN  {<< <<keys[i]>>, <<sample(first(i))[i]>> >> :
              i \in {k \in 1..Len(keys) : has(k) # {}}}

\* The part of C12 about read_one.
SingleGenotypesFirstWins ==
  \A c \in Callers :
    (Returned(c, "get_record") /\ ret[c].tag = "ok") =>
      ret[c].records[1].genotypes = ExpectedGenotypes(file.lines[taken[c][1]].cols)

\* C12: in a record returned by a read (read_one or read_many) the genotypes
\* mapping is the flattening of the per-sample mappings in which every key
\* keeps the value of the first sample that has it.
C12_GenotypesFirstWins ==
  /\ SingleGenotypesFirstWins
  /\ \A c \in Callers :
       (Returned(c, "get_records") /\ ret[c].tag = "ok") =>
         \A k \in 1..Len(ret[c].records) :
           ret[c].records[k].genotypes =
             ExpectedGenotypes(file.lines[start_cur[c] + k].cols)

\* The part of C13 about header queries that return.
ReturnedHeaderStable ==
  \A c \in Callers :
    (Returned(c, "get_header") /\ ret[c].tag # "panic") =>
      /\ ret[c] = OkHeader(VcfHeaderOf(ParseHeader(file.text).header))
      /\ cursor = start_cur[c]

\* C13: every header query returns the header parsed at open, whatever reads,
\* successful or failing, came before it, and leaves the cursor where it was.
C13_HeaderStable ==
  \A c \in Callers :
    Returned(c, "get_header") =>
      /\ ret[c] = OkHeader(VcfHeaderOf(ParseHeader(file.text).header))
      /\ cursor = start_cur[c]

\* The closed set of I/O error values and the value of every named kind.
ClassifiedErrors ==
  {AtomTerm(a) : a \in {"not_found", "permission_denied", "broken_pipe",
                        "already_exists", "unknown"}}
NamedKinds ==
  {<<"NotFound", "not_found">>, <<"PermissionDenied", "permission_denied">>,
   <<"BrokenPipe", "broken_pipe">>, <<"AlreadyExists", "already_exists">>}

\* The failure kind get_handle met, if any: that of the open, else of the read.
OpenFailure == IF file.open # "Ok" THEN file.open ELSE file.read

\* C14: an open that fails with an I/O failure of any kind yields a value of
\* the closed set: the value of its kind for the four named kinds (NotFound
\* for a missing path, PermissionDenied for an unreadable one), Unknown for
\* every other kind; all five values occur.
C14_ClassifierTotalOnto ==
  /\ (opened /\ OpenFailure # "Ok") =>
       /\ ~open_result.ok
       /\ open_result.term \in ClassifiedErrors
       /\ \A p \in NamedKinds :
            (OpenFailure = p[1]) <=> (open_result.term = AtomTerm(p[2]))
       /\ (OpenFailure \notin {p[1] : p \in NamedKinds})
            <=> (open_result.term = AtomTerm("unknown"))
  /\ {io_error_to_term(k) : k \in IoErrorKinds} = ClassifiedErrors

\* An open of an unreadable path has failed with PermissionDenied.
C14_Witness ==
  /\ opened
  /\ file.open = "PermissionDenied"
  /\ open_result.term = AtomTerm("permission_denied")
  /\ ~handle.exists

\* The filter outcome of a FILTER column.
ExpectedFilters(col) ==
  IF col = <<".">> THEN [tag |-> "none", names |-> << >>]
  ELSE IF col = <<"PASS">> THEN [tag |-> "pass", names |-> << >>]
  ELSE [tag |-> "fail",
        names |-> LET names == SelectSeq(col, LAMBDA x : x # ";")
                  IN [i \in 1..Len(names) |-> <<names[i]>>]]

\* C15: the filters of a returned record are NotTested (None) when the FILTER
\* column of its line is ".", Pass when it is "PASS", and otherwise Fail with
\* the ";"-separated names in column order, for read_one and read_many alike.
C15_FilterOutcome ==
  \A c \in Callers :
    /\ (Returned(c, "get_record") /\ ret[c].tag = "ok") =>
         ret[c].records[1].filters = ExpectedFilters(file.lines[taken[c][1]].cols[7])
    /\ (Returned(c, "get_records") /\ ret[c].tag = "ok") =>
         \A k \in 1..Len(ret[c].records) :
           ret[c].records[k].filters =
             ExpectedFilters(file.lines[start_cur[c] + k].cols[7])

\* A batch returned a record that was not tested and one that failed two
\* filters.
C15_Witness ==
  \E c \in Callers :
    /\ Returned(c, "get_records") /\ ret[c].tag = "ok"
    /\ \E k \in 1..Len(ret[c].records) : ret[c].records[k].filters.tag = "none"
    /\ \E k \in 1..Len(ret[c].records) :
         ret[c].records[k].filters = [tag |-> "fail", names |-> << <<"q10">>, <<"s50">> >>]

EndOfStream == Err(AtomTerm("end_of_file"))

\* C16: once a read_one on the handle has returned EndOfStream, every later
\* read_one returns EndOfStream and every later read_many returns an empty
\* list with no error (stated for inputs whose lines are all valid UTF-8, so
\* that no line read can fail).
C16_ExhaustedForGood ==
  (eos_observed /\ \A i \in 1..Len(file.lines) : file.lines[i].utf8) =>
    \A c \in Callers :
      /\ Returned(c, "get_record") => ret[c] = EndOfStream
      /\ Returned(c, "get_records") => ret[c] = OkRecords(<< >>)

\* The same statement for inputs without an empty line: it holds there.
ExhaustedAtTrueEnd ==
  (eos_observed /\ \A i \in 1..Len(file.lines) :
                     file.lines[i].utf8 /\ ~IsBlank(file.lines[i])) =>
    /\ cursor = Len(file.lines)
    /\ \A c \in Callers :
         /\ Returned(c, "get_record") => ret[c] = EndOfStream
         /\ Returned(c, "get_records") => ret[c] = OkRecords(<< >>)

\* The caller stands at a lock() of the stream / of the header.
AtStreamLock(c) == pc[c] \in {"gr_lock_stream", "gs_lock_stream"}
AtHeaderLock(c) == pc[c] \in {"gr_lock_header", "gs_lock_header", "gh_lock"}

\* The call of c waits for a lock that d holds.
WaitsFor(c, d) ==
  \/ AtStreamLock(c) /\ stream_owner = d
  \/ AtHeaderLock(c) /\ header_owner = d
Blocked(c) == \E d \in Callers : WaitsFor(c, d)

\* C17: concurrent get_header, get_record and get_records calls on one handle
\* cannot deadlock: no call asks for the stream lock while it holds the header
\* lock, a lock is held only by a call that is past its lock() and has not
\* returned, no two calls wait for each other, and whenever calls are in
\* flight one of them is not waiting.
C17_NoDeadlock ==
  /\ \A c \in Callers : AtStreamLock(c) => header_owner # c /\ stream_owner # c
  /\ \A c \in Callers : AtHeaderLock(c) => header_owner # c
  /\ stream_owner # Free =>
       stream_owner \in Callers
         /\ pc[stream_owner] \in {"gr_read", "gs_lock_header", "gs_loop"}
  /\ header_owner # Free =>
       header_owner \in Callers
         /\ pc[header_owner] \in {"gr_parse", "gs_loop", "gh_body"}
  /\ \A c, d \in Callers : ~(WaitsFor(c, d) /\ WaitsFor(d, c))
  /\ (\E c \in Callers : pc[c] # "idle") =>
       \E c \in Callers : pc[c] # "idle" /\ ~Blocked(c)

\* A call in flight that is not waiting for a held lock can take its next step.
NotBlockedCanStep ==
  \A c \in Callers : (pc[c] # "idle" /\ ~Blocked(c)) => ENABLED Step(c)

\* A get_records call holds the stream and waits for the header, which
\* another call holds.
C17_Witness ==
  \E c, d \in Callers :
    /\ c # d
    /\ pc[c] = "gs_lock_header" /\ stream_owner = c
    /\ header_owner = d

Range(seq) == {seq[k] : k \in 1..Len(seq)}

\* C18: with concurrent callers, the lines a call consumed are the lines that
\* follow the cursor it found when it took the stream lock, one after the
\* other with none missing, no line is consumed by the calls of two callers,
\* and the records of a get_records batch come from consecutive lines.
C18_LinesReadOnceInOrder ==
  /\ \A c \in Callers :
       /\ \A k \in 1..Len(taken[c]) : taken[c][k] = start_cur[c] + k
       /\ Range(taken[c]) \subseteq 1..cursor
       /\ op[c] = "get_records" =>
            \A k \in 1..Len(res_src[c]) : res_src[c][k] = start_cur[c] + k
  /\ \A c, d \in Callers : c # d => Range(taken[c]) \cap Range(taken[d]) = {}

\* A batch has consumed a line and will read on, the other caller waits at the
\* stream lock after reading a line itself, and input is left.
C18_Witness ==
  \E c, d \in Callers :
    /\ c # d
    /\ pc[c] = "gs_loop" /\ Len(taken[c]) >= 1 /\ while_cond(c)
    /\ AtStreamLock(d)
    /\ cursor < Len(file.lines)

\* A returned get_record consumed the one line after the cursor it started
\* at, or nothing at the end of the input, and returned that line's result.
ConsumedOneLine(c) ==
  /\ Len(taken[c]) = (IF start_cur[c] < Len(file.lines) THEN 1 ELSE 0)
  /\ end_cur[c] = start_cur[c] + Len(taken[c])
  /\ (start_cur[c] < Len(file.lines) /\ file.lines[start_cur[c] + 1].utf8) =>
       /\ taken[c] = <<start_cur[c] + 1>>
       /\ ret[c] = get_record_match(file.lines[start_cur[c] + 1].cols, handle.header)

\* C19: every read_one call consumes exactly one line when a line remains and
\* none at the end of the input, whatever the earlier calls returned, and it
\* returns the result for the line that follows the one the call before it
\* consumed.
C19_OneLinePerReadOne ==
  \A c \in Callers : Returned(c, "get_record") => ConsumedOneLine(c)

\* The same statement for inputs whose line reads cannot fail: it holds there,
\* after decode errors too.
OneLinePerReadOneWithoutIoFailure ==
  (\A i \in 1..Len(file.lines) : file.lines[i].utf8) =>
    \A c \in Callers : Returned(c, "get_record") => ConsumedOneLine(c)

\* A read_one returned the record of the line after a malformed line.
ReadOneAfterDecodeError ==
  \E c \in Callers :
    /\ Returned(c, "get_record") /\ ret[c].tag = "ok"
    /\ start_cur[c] >= 1
    /\ IsMalformed(file.lines[start_cur[c]])

MaxOf(a, b) == IF a >= b THEN a ELSE b

\* Loop iterations a get_records call has completed: each one appended a
\* record, recorded a decode error, or observed the end of the input.
Iterations(c) ==
  Len(result_vector[c]) + (IF rustler_error[c].some THEN 1 ELSE 0)
                        + (IF end_of_file[c] THEN 1 ELSE 0)

\* C20: a get_records(handle, N) call consumes at most max(1, N) lines; its
\* completed loop iterations number at most max(1, N), each of them appended
\* one record, recorded a decode error or observed the end of the input, the
\* last two end the loop, and the call returns only when the loop has ended.
C20_BatchBounded ==
  \A c \in Callers :
    op[c] = "get_records" =>
      /\ Len(taken[c]) <= MaxOf(1, count[c])
      /\ (pc[c] = "gs_loop" \/ (pc[c] = "idle" /\ ret[c].tag \in {"ok", "error"})) =>
           /\ Iterations(c) <= MaxOf(1, count[c])
           /\ first_read[c] <=> (Iterations(c) = 0)
           /\ Len(taken[c]) <= Iterations(c)
           /\ Len(taken[c]) >=
                Len(result_vector[c]) + (IF rustler_error[c].some THEN 1 ELSE 0)
           /\ ~(rustler_error[c].some /\ end_of_file[c])
           /\ (rustler_error[c].some \/ end_of_file[c]) => ~while_cond(c)
           /\ pc[c] = "idle" => ~while_cond(c) /\ Iterations(c) >= 1

\* An iteration of the loop that returns to the loop completes one more
\* iteration than before, and the call returns in the step after the loop
\* condition fails.
IterationAdvances ==
  [][\A c \in Callers :
       (pc[c] = "gs_loop" /\ op[c] = "get_records") =>
          \/ pc'[c] = "gs_loop" /\ Iterations(c)' = Iterations(c) + 1
          \/ pc'[c] = "idle"
          \/ UNCHANGED <<pc[c], result_vector[c], rustler_error[c], end_of_file[c]>>]_vars

\* A get_records(handle, 0) call returned after it consumed one line.
C20_Witness ==
  \E c \in Callers :
    /\ Returned(c, "get_records")
    /\ count[c] = 0
    /\ Len(taken[c]) = 1
    /\ Len(ret[c].records) = 1

====
